---- MODULE Spec2Model ----
(***************************************************************************)
(* Notification Pending Store: .github/scripts/telegram/                   *)
(* notification_storage.py.  The store is a thin synchronous facade over   *)
(* one YDB table; every call is made by a short-lived caller (a CI step or *)
(* a CLI invocation) that runs one operation and takes its result.         *)
(***************************************************************************)
EXTENDS Integers, Sequences, FiniteSets, TLC

(* ------------------------------- bounds -------------------------------- *)

\* The UTC clock runs over 0..MaxTime, counted in ticks.
MaxTime == 2

\* No put is started once the table holds MaxRows rows.
MaxRows == 2

\* Ticks of datetime.utcnow() per whole second, the unit '%S' formats
\* (1000000 in the program).
TicksPerSecond == 2

(* ------------------------------- values -------------------------------- *)

\* Strings are sequences of characters; Python's None is a value of its own.
None == <<"None">>

\* An Optional[datetime] that is None.
NoTime == -1

Quote == "'"

TeamNames == {<<>>, <<"a">>, <<"a", Quote>>}

BranchNames == {<<"m">>}

BuildTypes == {<<"r">>}

Times == 0..MaxTime

\* notification_data: a dict with one key; "set()" is a value json cannot encode.
JsonValues == {"0", "1"}

PyValues == JsonValues \cup {"set()"}

Documents == [issues : PyValues]

NoDocument == [issues |-> "-"]

\* Filter arguments: Optional[str] and Optional[datetime].
TeamFilters == {None} \cup TeamNames

BranchFilters == {None, <<"m">>}

BuildFilters == {None}

TimeFilters == {NoTime} \cup Times

VARIABLES YDB_AVAILABLE, schema, rows, clock, last, inflight

vars == <<YDB_AVAILABLE, schema, rows, clock, last, inflight>>

(* --------------------------- the table layout -------------------------- *)

NoTable == [exists |-> FALSE, if_not_exists |-> FALSE, primary_key |-> {}]

\* The statement with notification_data made part of the primary key.
create_sql_PayloadInKey ==
    [exists |-> TRUE,
     if_not_exists |-> TRUE,
     primary_key |-> {"team_name", "branch", "build_type", "created_at",
                      "notification_data"}]

\* The statement as a plain CREATE TABLE, without IF NOT EXISTS.
create_sql_NoIfNotExists ==
    [exists |-> TRUE,
     if_not_exists |-> FALSE,
     primary_key |-> {"team_name", "branch", "build_type", "created_at"}]

\* The statement with created_at alone as the primary key.
create_sql_TimestampOnlyKey ==
    [exists |-> TRUE,
     if_not_exists |-> TRUE,
     primary_key |-> {"created_at"}]

\* The statement with created_at left out of the primary key.
create_sql_NoTimestampInKey ==
    [exists |-> TRUE,
     if_not_exists |-> TRUE,
     primary_key |-> {"team_name", "branch", "build_type"}]

\* The DDL statement of create_table.
create_sql ==
    [exists |-> TRUE,
     if_not_exists |-> TRUE,
     primary_key |-> {"team_name", "branch", "build_type", "created_at"}]

\* The ORDER BY list of the SELECT statement.
order_by == <<"team_name", "branch", "build_type", "created_at">>

(* ------------------------------ conversions ---------------------------- *)

\* json.dumps of a one-key dict: the JSON text, token by token.
JsonSerializable(d) == d.issues \in JsonValues

json_dumps(d) == <<"{", "\"issues\"", ":", d.issues, "}">>

\* json.loads of such a text.
json_loads(s) == [issues |-> s[4]]

\* strftime('%Y-%m-%dT%H:%M:%SZ'): the text names the whole second only.
strftime(t) == t \div TicksPerSecond

\* Timestamp('...') as the backend reads the text back.
Timestamp(secs) == secs * TicksPerSecond

\* Python truthiness of an Optional[str]: None and '' are both false.
Truthy(s) == s # None /\ Len(s) > 0

(* -------------------------- building the WHERE ------------------------- *)

StrCond(col, text) == [col |-> col, op |-> "=", text |-> text, secs |-> 0]

TimeCond(op, t) == [col |-> "created_at", op |-> op, text |-> <<>>, secs |-> strftime(t)]

\* The conditions list of get_pending_notifications and delete_notifications;
\* timeOp is ">=" for since and "<" for before.
BuildConditions(team_name, branch, build_type, time, timeOp) ==
    (IF Truthy(team_name) THEN <<StrCond("team_name", team_name)>> ELSE <<>>)
    \o (IF Truthy(branch) THEN <<StrCond("branch", branch)>> ELSE <<>>)
    \o (IF Truthy(build_type) THEN <<StrCond("build_type", build_type)>> ELSE <<>>)
    \o (IF time # NoTime THEN <<TimeCond(timeOp, time)>> ELSE <<>>)

(* ------------------------------ the backend ---------------------------- *)

HasQuote(text) == \E i \in 1..Len(text) : text[i] = Quote

\* f"team_name = '{team_name}'": a quote inside the interpolated text ends the
\* literal early and the statement no longer parses.
Malformed(conds) ==
    \E i \in 1..Len(conds) : conds[i].col # "created_at" /\ HasQuote(conds[i].text)

CondHolds(row, c) ==
    IF c.col = "created_at"
    THEN IF c.op = ">=" THEN row.created_at >= Timestamp(c.secs)
                        ELSE row.created_at < Timestamp(c.secs)
    ELSE row[c.col] = c.text

\* WHERE c1 AND c2 AND ...; no condition at all is the "1=1" of the SELECT.
WhereHolds(row, conds) == \A i \in 1..Len(conds) : CondHolds(row, conds[i])

KeyOf(row, pk) == [c \in pk |-> row[c]]

\* Bulk upsert of one record: a row with the same primary key is replaced.
BulkUpsert(table, rec, pk) ==
    {r \in table : KeyOf(r, pk) # KeyOf(rec, pk)} \cup {rec}

\* Utf8 columns compare by code point.
Ord(c) ==
    CASE c = Quote -> 39
      [] c = "a" -> 97
      [] c = "m" -> 109
      [] c = "n" -> 110
      [] c = "r" -> 114
      [] OTHER -> 0

RECURSIVE StrLess(_, _)
StrLess(a, b) ==
    IF Len(b) = 0 THEN FALSE
    ELSE IF Len(a) = 0 THEN TRUE
    ELSE IF Ord(Head(a)) # Ord(Head(b)) THEN Ord(Head(a)) < Ord(Head(b))
    ELSE StrLess(Tail(a), Tail(b))

ColLess(col, x, y) == IF col = "created_at" THEN x < y ELSE StrLess(x, y)

\* r1 sorts strictly before r2 under ORDER BY cols.
RECURSIVE RowLess(_, _, _)
RowLess(r1, r2, cols) ==
    IF Len(cols) = 0 THEN FALSE
    ELSE IF r1[Head(cols)] # r2[Head(cols)]
         THEN ColLess(Head(cols), r1[Head(cols)], r2[Head(cols)])
         ELSE RowLess(r1, r2, Tail(cols))

RECURSIVE Perms(_)
Perms(S) ==
    IF S = {} THEN {<<>>}
    ELSE UNION {{<<x>> \o p : p \in Perms(S \ {x})} : x \in S}

\* The orders in which the backend may return S under ORDER BY cols: rows that
\* tie on every column come in any order.
SortedSeqs(S, cols) ==
    {s \in Perms(S) :
        \A i \in 1..Len(s) : \A j \in 1..Len(s) :
            i < j => ~RowLess(s[j], s[i], cols)}

(* ------------------------ calls and their outcomes --------------------- *)

\* A statement handed to the backend, with the number of its WHERE conditions.
Stmt(kind, n) == [kind |-> kind, conds |-> n]

\* The call a caller has made and what it got back: ok is the bool returned
\* (for a query and for create_table: no exception reached the caller), result
\* the list a query returned, err the branch the call left through, stmts the
\* statements handed to the backend, time the datetime argument (for a put:
\* the value of now), replaced whether the upsert found a row with its key.
Call(op, team_name, branch, build_type, time, data, ok, result, err, stmts, replaced) ==
    [op |-> op, team_name |-> team_name, branch |-> branch,
     build_type |-> build_type, time |-> time, data |-> data,
     ok |-> ok, result |-> result, err |-> err, stmts |-> stmts,
     replaced |-> replaced, again |-> FALSE]

NoCall ==
    Call("none", None, None, None, NoTime, NoDocument, TRUE, <<>>, "none", <<>>, FALSE)

\* The CI jobs that call store_notification at the same time, each in a process
\* of its own.
Producers == {1, 2}

\* A store_notification call in progress: its arguments, how far it has got
\* (pc), the clock reading it took (now) and what it returned.
Running(pc, team_name, branch, build_type, data, now, ok, err) ==
    [pc |-> pc, team_name |-> team_name, branch |-> branch,
     build_type |-> build_type, data |-> data, now |-> now, ok |-> ok, err |-> err]

Idle == Running("idle", None, None, None, NoDocument, NoTime, FALSE, "none")

\* ydb_wrapper.create_table(table_path, sql): net is whether the statement got
\* through to the backend.
ExecDDL(sch, sql, net) ==
    IF ~net THEN [raised |-> TRUE, err |-> "network", schema |-> sch]
    ELSE IF ~sch.exists THEN [raised |-> FALSE, err |-> "none", schema |-> sql]
    ELSE IF sql.if_not_exists THEN [raised |-> FALSE, err |-> "none", schema |-> sch]
    ELSE [raised |-> TRUE, err |-> "exists", schema |-> sch]

\* ydb_wrapper.execute_query(statement): why the statement raises, if it does.
ExecError(sch, conds, net) ==
    IF ~net THEN "network"
    ELSE IF Malformed(conds) THEN "syntax"
    ELSE IF ~sch.exists THEN "no_table"
    ELSE "none"

\* datetime.utcnow() at the moment store_notification prepares the record.
utcnow_Ahead == clock + 1

utcnow == clock

\* The record dict of store_notification.
Record(team_name, branch, build_type, now, notification_data) ==
    [team_name |-> team_name, branch |-> branch, build_type |-> build_type,
     created_at |-> now, notification_data |-> json_dumps(notification_data)]

\* The notification dict built from a result row; the JsonDocument column comes
\* back as a str, so json.loads is applied.
Notification(row) ==
    [team_name |-> row.team_name, branch |-> row.branch,
     build_type |-> row.build_type, created_at |-> row.created_at,
     notification_data |-> json_loads(row.notification_data)]

\* What store_notification and delete_notifications return when they give up:
\* driver missing, credentials missing, or an exception caught.
StoreFailed_AsSuccess == TRUE

StoreFailed == FALSE

DeleteFailed == FALSE

\* What delete_notifications returns once execute_query has returned: True,
\* whatever the statement removed.
DeleteDone_OnlyIfRemoved(removed) == removed # {}

DeleteDone(removed) == TRUE

\* What get_pending_notifications returns on the same three paths.
QueryFailed == <<>>

\* The backend statements issued by the time check_credentials has answered:
\* the wrapper is constructed and asked, nothing is executed yet.
BeforeCredentials_DDLFirst == <<Stmt("DDL", 0)>>

BeforeCredentials == <<>>

\* create_table(ydb_wrapper) inside store_notification is not guarded: when it
\* raises, the exception reaches the except clause of store_notification.
ProvisionFailed_Swallowed(ddl) == FALSE

ProvisionFailed(ddl) == ddl.raised

\* A guard that lets the empty condition list through.
RefuseDelete_Never(conds) == FALSE

\* "if not conditions": the guard of delete_notifications.
RefuseDelete_Inverted(conds) == Len(conds) # 0

RefuseDelete(conds) == Len(conds) = 0

\* main: the exit status of the command that made the call. get exits 0
\* whatever the query returned; an exception out of create_table ends the
\* interpreter with status 1.
exit_code(c) ==
    IF c.op = "query" THEN 0
    ELSE IF c.ok THEN 0 ELSE 1

(* -------------------------------- actions ------------------------------ *)

Init ==
    /\ YDB_AVAILABLE \in BOOLEAN
    /\ schema = NoTable
    /\ rows = {}
    /\ clock = 0
    /\ last = NoCall
    /\ inflight = [p \in Producers |-> Idle]

\* create_table(ydb_wrapper), called on its own (the create-table command).
create_table ==
    /\ last = NoCall
    /\ YDB_AVAILABLE
    /\ \E net \in BOOLEAN :
        LET ddl == ExecDDL(schema, create_sql, net)
        IN /\ schema' = ddl.schema
           /\ last' = Call("create_table", None, None, None, NoTime, NoDocument,
                           ~ddl.raised, <<>>, ddl.err, <<Stmt("DDL", 0)>>, FALSE)
    /\ UNCHANGED <<YDB_AVAILABLE, rows, clock, inflight>>

store_notification(team_name, branch, build_type, notification_data) ==
    /\ last = NoCall
    /\ Cardinality(rows) < MaxRows
    /\ \E fault \in {"none", "credentials", "ddl", "insert"} :
        LET cred == fault # "credentials"
            ddl == ExecDDL(schema, create_sql, fault # "ddl")
            insNet == fault # "insert"
            now == utcnow
            record == Record(team_name, branch, build_type, now, notification_data)
            pk == ddl.schema.primary_key
            Ret(ok, err, stmts, t, replaced) ==
                Call("put", team_name, branch, build_type, t, notification_data,
                     ok, <<>>, err, stmts, replaced)
        IN IF ~YDB_AVAILABLE
           THEN /\ last' = Ret(StoreFailed, "unavailable", <<>>, NoTime, FALSE)
                /\ UNCHANGED <<schema, rows>>
           ELSE IF ~cred
           THEN /\ last' = Ret(StoreFailed, "credentials", BeforeCredentials, NoTime, FALSE)
                /\ UNCHANGED <<schema, rows>>
           ELSE IF ProvisionFailed(ddl)
           THEN /\ last' = Ret(StoreFailed, ddl.err, <<Stmt("DDL", 0)>>, NoTime, FALSE)
                /\ UNCHANGED <<schema, rows>>
           ELSE IF ~JsonSerializable(notification_data)
           THEN /\ last' = Ret(StoreFailed, "serialization", <<Stmt("DDL", 0)>>, now, FALSE)
                /\ schema' = ddl.schema
                /\ UNCHANGED rows
           ELSE IF ~insNet
           THEN /\ last' = Ret(StoreFailed, "network",
                               <<Stmt("DDL", 0), Stmt("UPSERT", 0)>>, now, FALSE)
                /\ schema' = ddl.schema
                /\ UNCHANGED rows
           ELSE /\ last' = Ret(TRUE, "none",
                               <<Stmt("DDL", 0), Stmt("UPSERT", 0)>>, now,
                               \E r \in rows : KeyOf(r, pk) = KeyOf(record, pk))
                /\ schema' = ddl.schema
                /\ rows' = BulkUpsert(rows, record, pk)
    /\ UNCHANGED <<YDB_AVAILABLE, clock, inflight>>

SameQuery(c, team_name, branch, build_type, since) ==
    /\ c.op = "query"
    /\ c.team_name = team_name /\ c.branch = branch
    /\ c.build_type = build_type /\ c.time = since

\* A query is made by a fresh caller, by the caller of a put right after it, or
\* repeats the query just made.
get_pending_notifications(team_name, branch, build_type, since) ==
    /\ \/ last.op \in {"none", "put"}
       \/ SameQuery(last, team_name, branch, build_type, since)
    /\ \E fault \in {"none", "credentials", "statement"} :
        LET cred == fault # "credentials"
            net == fault # "statement"
            conds == BuildConditions(team_name, branch, build_type, since, ">=")
            err == ExecError(schema, conds, net)
            matching == {r \in rows : WhereHolds(r, conds)}
            Ret(result, e, stmts) ==
                Call("query", team_name, branch, build_type, since, NoDocument,
                     TRUE, result, e, stmts, FALSE)
        IN IF ~YDB_AVAILABLE
           THEN last' = Ret(QueryFailed, "unavailable", <<>>)
           ELSE IF ~cred
           THEN last' = Ret(QueryFailed, "credentials", BeforeCredentials)
           ELSE IF err # "none"
           THEN last' = Ret(QueryFailed, err, <<Stmt("SELECT", Len(conds))>>)
           ELSE \E s \in SortedSeqs(matching, order_by) :
                   last' = Ret([i \in 1..Len(s) |-> Notification(s[i])], "none",
                               <<Stmt("SELECT", Len(conds))>>)
    /\ UNCHANGED <<YDB_AVAILABLE, schema, rows, clock, inflight>>

SameDelete(c, team_name, branch, build_type, before) ==
    /\ c.op = "delete" /\ c.ok
    /\ c.team_name = team_name /\ c.branch = branch
    /\ c.build_type = build_type /\ c.time = before

\* A delete is made by a fresh caller, or repeats the delete that has just
\* succeeded; again marks the repeated call.
delete_notifications(team_name, branch, build_type, before) ==
    /\ \/ last = NoCall
       \/ SameDelete(last, team_name, branch, build_type, before)
    /\ \E fault \in {"none", "credentials", "statement"} :
        LET cred == fault # "credentials"
            net == fault # "statement"
            conds == BuildConditions(team_name, branch, build_type, before, "<")
            err == ExecError(schema, conds, net)
            Ret(ok, e, stmts) ==
                [Call("delete", team_name, branch, build_type, before, NoDocument,
                      ok, <<>>, e, stmts, FALSE) EXCEPT !.again = last # NoCall]
        IN IF ~YDB_AVAILABLE
           THEN /\ last' = Ret(DeleteFailed, "unavailable", <<>>)
                /\ UNCHANGED rows
           ELSE IF ~cred
           THEN /\ last' = Ret(DeleteFailed, "credentials", BeforeCredentials)
                /\ UNCHANGED rows
           ELSE IF RefuseDelete(conds)
           THEN /\ last' = Ret(FALSE, "refused", <<>>)
                /\ UNCHANGED rows
           ELSE IF err # "none"
           THEN /\ last' = Ret(DeleteFailed, err, <<Stmt("DELETE", Len(conds))>>)
                /\ UNCHANGED rows
           ELSE /\ last' = Ret(DeleteDone({r \in rows : WhereHolds(r, conds)}), "none",
                               <<Stmt("DELETE", Len(conds))>>)
                /\ rows' = {r \in rows : ~WhereHolds(r, conds)}
    /\ UNCHANGED <<YDB_AVAILABLE, schema, clock, inflight>>

\* The caller takes the result; the store keeps nothing of the call.
Return ==
    /\ last # NoCall
    /\ last' = NoCall
    /\ UNCHANGED <<YDB_AVAILABLE, schema, rows, clock, inflight>>

\* The UTC clock advances between calls.
Tick ==
    /\ last = NoCall
    /\ clock < MaxTime
    /\ clock' = clock + 1
    /\ UNCHANGED <<YDB_AVAILABLE, schema, rows, last, inflight>>

Put ==
    \E t \in TeamNames, b \in BranchNames, bt \in BuildTypes, d \in Documents :
        store_notification(t, b, bt, d)

Query ==
    \E t \in TeamFilters, b \in BranchFilters, bt \in BuildFilters, s \in TimeFilters :
        get_pending_notifications(t, b, bt, s)

Delete ==
    \E t \in TeamFilters, b \in BranchFilters, bt \in BuildFilters, s \in TimeFilters :
        delete_notifications(t, b, bt, s)

Next == create_table \/ Put \/ Query \/ Delete \/ Return \/ Tick

Spec == Init /\ [][Next]_vars

(* ---------------- store_notification, step by step, per producer -------- *)

\* Lines 77-92: driver and credential checks, then create_table.
store_notification_provision(p, team_name, branch, build_type, notification_data) ==
    /\ inflight[p].pc = "idle"
    /\ \E fault \in {"none", "credentials", "ddl"} :
        LET ddl == ExecDDL(schema, create_sql, fault # "ddl")
            Now(pc, ok, err) ==
                Running(pc, team_name, branch, build_type, notification_data,
                        NoTime, ok, err)
        IN IF ~YDB_AVAILABLE
           THEN /\ inflight' = [inflight EXCEPT ![p] = Now("done", StoreFailed, "unavailable")]
                /\ UNCHANGED schema
           ELSE IF fault = "credentials"
           THEN /\ inflight' = [inflight EXCEPT ![p] = Now("done", StoreFailed, "credentials")]
                /\ UNCHANGED schema
           ELSE IF ProvisionFailed(ddl)
           THEN /\ inflight' = [inflight EXCEPT ![p] = Now("done", StoreFailed, ddl.err)]
                /\ UNCHANGED schema
           ELSE /\ inflight' = [inflight EXCEPT ![p] = Now("provisioned", FALSE, "none")]
                /\ schema' = ddl.schema
    /\ UNCHANGED <<YDB_AVAILABLE, rows, clock, last>>

\* Lines 95-102: the clock is read and the record built; json.dumps may raise.
store_notification_prepare(p) ==
    /\ inflight[p].pc = "provisioned"
    /\ inflight' = [inflight EXCEPT ![p] =
            IF JsonSerializable(inflight[p].data)
            THEN [@ EXCEPT !.pc = "prepared", !.now = utcnow]
            ELSE [@ EXCEPT !.pc = "done", !.now = utcnow,
                           !.ok = StoreFailed, !.err = "serialization"]]
    /\ UNCHANGED <<YDB_AVAILABLE, schema, rows, clock, last>>

\* Lines 115-118: the upsert, then return True.
store_notification_upsert(p) ==
    /\ inflight[p].pc = "prepared"
    /\ \E fault \in {"none", "insert"} :
        LET c == inflight[p]
            record == Record(c.team_name, c.branch, c.build_type, c.now, c.data)
        IN IF fault = "insert"
           THEN /\ inflight' = [inflight EXCEPT ![p] =
                        [@ EXCEPT !.pc = "done", !.ok = StoreFailed, !.err = "network"]]
                /\ UNCHANGED rows
           ELSE /\ inflight' = [inflight EXCEPT ![p] = [@ EXCEPT !.pc = "done", !.ok = TRUE]]
                /\ rows' = BulkUpsert(rows, record, schema.primary_key)
    /\ UNCHANGED <<YDB_AVAILABLE, schema, clock, last>>

Provision ==
    \E p \in Producers, t \in TeamNames, b \in BranchNames, bt \in BuildTypes,
       d \in Documents :
        store_notification_provision(p, t, b, bt, d)

Prepare == \E p \in Producers : store_notification_prepare(p)

Upsert == \E p \in Producers : store_notification_upsert(p)

NextConcurrent == Provision \/ Prepare \/ Upsert \/ Tick

SpecConcurrent == Init /\ [][NextConcurrent]_vars

(* ------------------------------- properties ---------------------------- *)

\* The call c handed a statement of this kind to the backend.
Issued(c, kind) == \E i \in 1..Len(c.stmts) : c.stmts[i].kind = kind

\* No filter field of the call is given.
AllAbsent(c) ==
    /\ c.team_name = None /\ c.branch = None /\ c.build_type = None
    /\ c.time = NoTime

\* This step is a call of op: every call starts from NoCall or from another
\* call's record and leaves its own.
Calls(op) == last' # last /\ last'.op = op

\* C1: a delete whose team_name, branch, build_type and before are all absent
\* returns failure, hands no DELETE statement to the backend and leaves the
\* stored rows exactly as they were, whatever the state of the store.
C1_EmptyFilterDeleteRefused ==
    [][(Calls("delete") /\ AllAbsent(last'))
        => (~last'.ok /\ ~Issued(last', "DELETE") /\ rows' = rows)]_vars

\* A delete without any filter field was refused while the table held rows.
C1_Witness ==
    /\ last.op = "delete" /\ AllAbsent(last)
    /\ last.err = "refused" /\ rows # {}

\* The records of a returned list, as a set.
Returned(c) == {c.result[i] : i \in 1..Len(c.result)}

\* The stored row agrees with every name field the call gives.
Agrees(r, c) ==
    /\ c.team_name # None => r.team_name = c.team_name
    /\ c.branch # None => r.branch = c.branch
    /\ c.build_type # None => r.build_type = c.build_type

\* The call gives none of the three name fields.
NoNames(c) == c.team_name = None /\ c.branch = None /\ c.build_type = None

\* The query's filter matches the key of the record the put p stored.
MatchesPut(q, p) ==
    /\ q.team_name \in {None, p.team_name}
    /\ q.branch \in {None, p.branch}
    /\ q.build_type \in {None, p.build_type}
    /\ q.time = NoTime \/ q.time <= p.time

\* The put's record as a query returns it.
Stored(p) ==
    [team_name |-> p.team_name, branch |-> p.branch, build_type |-> p.build_type,
     created_at |-> p.time, notification_data |-> p.data]

\* C2: after a successful put(r), the very next query whose filter matches r's
\* key returns a record with r's team_name, branch and build_type whose payload
\* equals r's payload; stated for the queries whose driver, credentials and
\* connection are all in order.
C2_PutQueryRoundTrip ==
    [][(/\ last.op = "put" /\ last.ok
        /\ Calls("query") /\ MatchesPut(last', last)
        /\ last'.err \notin {"unavailable", "credentials", "network"})
        => Stored(last) \in Returned(last')]_vars

\* C3: a query returns exactly the stored records that agree with every name
\* field that is present (not None), an absent field matching every value;
\* stated for the queries without since that the backend answered.
C3_FilterCorrectness ==
    (last.op = "query" /\ last.err = "none" /\ last.time = NoTime)
        => Returned(last) = {Notification(r) : r \in {x \in rows : Agrees(x, last)}}

\* C4: a query with since = s returns exactly the records with created_at >= s
\* and none with created_at < s, at the resolution of the stored timestamps;
\* stated for the queries whose only present field is since.
C4_SinceInclusive ==
    (last.op = "query" /\ last.err = "none" /\ NoNames(last) /\ last.time # NoTime)
        => Returned(last)
             = {Notification(r) : r \in {x \in rows : x.created_at >= last.time}}

\* C5: a successful delete removes exactly the stored records that match its
\* filter, before = b matching created_at < b; stated for the deletes whose only
\* present field is before.
C5_DeleteBeforeExclusive ==
    [][(Calls("delete") /\ last'.ok /\ NoNames(last') /\ last'.time # NoTime)
        => rows' = {r \in rows : ~(r.created_at < last'.time)}]_vars

\* C6: a query returns the empty list only when no stored record matches its
\* filter, so that an empty list never stands for a backend that could not be
\* reached.
C6_EmptyMeansNoMatch ==
    (last.op = "query" /\ last.result = <<>>)
        => ~\E r \in rows :
              Agrees(r, last) /\ (last.time # NoTime => r.created_at >= last.time)

\* C7: put and delete return success only when their statement (the insert,
\* the DELETE) was handed to the backend and completed: on a missing driver, a
\* failed credential check or a raising statement they return failure, and a
\* failed put leaves the stored rows as they were.
C7_SuccessOnlyIfStatementCompleted ==
    [][(Calls("put") \/ Calls("delete"))
        => /\ last'.err # "none" => ~last'.ok
           /\ last'.ok => Issued(last', IF last'.op = "put" THEN "UPSERT" ELSE "DELETE")
           /\ (last'.op = "put" /\ ~last'.ok) => rows' = rows]_vars

\* A put whose insert raised returned failure while the table held rows.
C7_Witness ==
    /\ last.op = "put" /\ ~last.ok /\ last.err = "network"
    /\ Issued(last, "UPSERT") /\ rows # {}

\* The four-field key of a stored row or of a returned record.
Key4(r) == <<r.team_name, r.branch, r.build_type, r.created_at>>

\* C8: in every reachable state the table holds at most one row for each tuple
\* (team_name, branch, build_type, created_at), and no query returns two
\* records with the same four-field key.
C8_OneRecordPerKey ==
    /\ \A r1 \in rows : \A r2 \in rows : Key4(r1) = Key4(r2) => r1 = r2
    /\ last.op = "query" =>
          \A i \in 1..Len(last.result) : \A j \in 1..Len(last.result) :
              Key4(last.result[i]) = Key4(last.result[j]) => i = j

\* A put found a row with its own four-field key and took its place.
C8_Witness ==
    /\ last.op = "put" /\ last.ok /\ last.replaced
    /\ Stored(last) \in {Notification(r) : r \in rows}

\* The returned list ascends by (team_name, branch, build_type, created_at).
Ascending(c) ==
    \A i \in 1..Len(c.result) : \A j \in 1..Len(c.result) :
        i < j => ~RowLess(c.result[j], c.result[i], order_by)

\* C9: the list a query returns is sorted ascending by (team_name, branch,
\* build_type, created_at), and a query repeated with the same filter, no put
\* or delete in between, returns the same records in the same order.
C9_SortedAndRepeatable ==
    [][Calls("query")
        => /\ Ascending(last')
           /\ last.op = "query" => last'.result = last.result]_vars

\* C10: create_table is idempotent: once the table exists, a call whose
\* statement reaches the backend raises no error and leaves the table layout
\* as it is, the provisioning step of a put is never refused because the table
\* exists, and no call of create_table changes the stored rows.
C10_CreateTableIdempotent ==
    [][/\ Calls("create_table")
          => /\ rows' = rows
             /\ (schema.exists /\ last'.err # "network")
                   => (last'.ok /\ schema' = schema)
       /\ Calls("put") => last'.err # "exists"]_vars

\* create_table succeeded on a table that already held rows.
C10_Witness ==
    last.op = "create_table" /\ last.ok /\ rows # {}

\* The stored row matches the filter of the delete: it agrees with every name
\* field given and, with before given, was created before it.
MatchesDelete(r, c) ==
    Agrees(r, c) /\ (c.time # NoTime => r.created_at < c.time)

\* C11: a stored record stops being retrievable only through a delete whose
\* filter it matches, or through a put of its own four-field key; query and
\* create_table leave the stored rows unchanged.
C11_NoAutonomousRemoval ==
    [][/\ \A r \in rows \ rows' :
              \/ Calls("delete") /\ last'.ok /\ MatchesDelete(r, last')
              \/ Calls("put") /\ last'.ok /\ Key4(Stored(last')) = Key4(r)
       /\ (Calls("query") \/ Calls("create_table")) => rows' = rows]_vars

\* C12: a put whose team_name, branch or build_type is the empty string fails,
\* performs no insert and leaves the stored rows unchanged.
C12_EmptyKeyFieldRejected ==
    [][(Calls("put") /\ <<>> \in {last'.team_name, last'.branch, last'.build_type})
        => (~last'.ok /\ ~Issued(last', "UPSERT") /\ rows' = rows)]_vars

\* C13: every command exits with status 0 exactly when its store operation
\* succeeded, and with status 1 on any failure (no driver, no credentials, a
\* raising statement, a refused delete).
C13_ExitCodeTellsSuccess ==
    last.op # "none" => (exit_code(last) = 0 <=> last.err = "none")

\* The argument is absent or the empty string.
Blank(s) == s = None \/ s = <<>>

AllBlank(c) ==
    Blank(c.team_name) /\ Blank(c.branch) /\ Blank(c.build_type) /\ c.time = NoTime

\* C18: every DELETE statement that reaches the backend carries at least one
\* condition; a delete whose filter fields are all absent or empty strings is
\* refused: it fails and issues no DELETE.
C18_DeleteAlwaysConditioned ==
    last.op = "delete"
        => /\ \A i \in 1..Len(last.stmts) :
                  last.stmts[i].kind = "DELETE" => last.stmts[i].conds >= 1
           /\ AllBlank(last) => (~last.ok /\ ~Issued(last, "DELETE"))

C18_Witness ==
    /\ last.op = "delete" /\ last.team_name = <<>> /\ AllBlank(last)
    /\ last.err = "refused" /\ rows # {}

\* C19: a call whose credential check answers false issues no backend
\* statement (no DDL, no insert, no SELECT, no DELETE), reports failure (an
\* empty list for a query) and leaves the table and its rows unchanged.
C19_CredentialsBeforeStatements ==
    [][(last' # last /\ last'.err = "credentials")
        => /\ last'.stmts = <<>>
           /\ rows' = rows /\ schema' = schema
           /\ last'.op \in {"put", "delete"} => ~last'.ok
           /\ last'.result = <<>>]_vars

C19_Witness ==
    /\ last.op \in {"put", "query", "delete"} /\ last.err = "credentials"
    /\ last.stmts = <<>> /\ rows # {}

\* C20: a put that issues its insert has issued the create-table statement
\* first and the table exists; a put whose create-table statement fails
\* issues no insert and returns failure.
C20_ProvisionBeforeInsert ==
    last.op = "put"
        => /\ Issued(last, "UPSERT")
                => /\ last.stmts = <<Stmt("DDL", 0), Stmt("UPSERT", 0)>>
                   /\ schema.exists
           /\ last.stmts = <<Stmt("DDL", 0)>> /\ last.time = NoTime
                => ~last.ok

C20_Witness ==
    /\ last.op = "put" /\ ~last.ok /\ last.stmts = <<Stmt("DDL", 0)>>
    /\ last.time = NoTime /\ ~schema.exists

\* C16: created_at is the store's clock reading at the put, never later than
\* the current time, and the record of a later put is never stamped earlier
\* than a record stored before it.
C16_CreatedAtFromStoreClock ==
    /\ \A r \in rows : r.created_at <= clock
    /\ (last.op = "put" /\ last.ok)
            => /\ last.time = clock
               /\ \E r \in rows : Key4(r) = Key4(Stored(last))
               /\ \A r \in rows : r.created_at <= last.time

C16_Witness ==
    /\ last.op = "put" /\ last.ok /\ last.time > 0
    /\ \E r \in rows : r.created_at < last.time

\* No row of the table carries the four-field key of r.
KeyGone(r, table) == \A x \in table : Key4(x) # Key4(r)

\* C15 as stated: a stored record keeps its payload under every put, query and
\* create_table, and leaves the table only in a delete.
C15_NoInPlaceMutation ==
    [][\A r \in rows : r \in rows' \/ (Calls("delete") /\ KeyGone(r, rows'))]_vars

\* C15 amended: a stored record keeps its payload under every query,
\* create_table and put of a different four-field key; it is replaced only by a
\* successful put that produces its own key (same names, same clock reading),
\* and leaves the table only in a delete.
C15_MutatedOnlyBySameKeyPut ==
    [][\A r \in rows :
          \/ r \in rows'
          \/ Calls("delete") /\ KeyGone(r, rows')
          \/ /\ Calls("put") /\ last'.ok /\ last'.replaced
             /\ Key4(Stored(last')) = Key4(r)
             /\ r.created_at = clock
             /\ Stored(last') \in {Notification(x) : x \in rows'}]_vars

C15_Witness ==
    /\ last.op = "put" /\ last.ok /\ last.replaced /\ last.time = clock
    /\ \A r \in rows : Key4(r) = Key4(Stored(last))
                          => r.notification_data = json_dumps(last.data)

\* C17: a delete repeated with the same filter right after it succeeded, and
\* not hit by a missing credential or a network failure, reports success
\* again and leaves the stored rows as the first call left them.
C17_DeleteIdempotent ==
    [][(/\ last.op = "delete" /\ last.ok
        /\ last' # last /\ last'.op = "delete" /\ last'.again
        /\ last'.err \notin {"credentials", "network"})
        => (last'.ok /\ last'.err = "none" /\ rows' = rows)]_vars

C17_Witness ==
    /\ last.op = "delete" /\ last.again /\ last.ok /\ rows # {}
    /\ Issued(last, "DELETE")
    /\ ~\E r \in rows : WhereHolds(r, BuildConditions(last.team_name, last.branch,
                                                      last.build_type, last.time, "<"))

\* The record a finished put has written.
Written(c) ==
    [team_name |-> c.team_name, branch |-> c.branch, build_type |-> c.build_type,
     created_at |-> c.now, notification_data |-> c.data]

\* C14: whatever the interleaving of two puts, once both have returned success
\* with different key tuples, both records are retrievable, each with its own
\* payload; and a put returns failure only for a reason of its own, never
\* because of the other put.
C14_ConcurrentPutsSafe ==
    /\ \A p \in Producers : \A q \in Producers :
          (/\ p # q
           /\ inflight[p].pc = "done" /\ inflight[p].ok
           /\ inflight[q].pc = "done" /\ inflight[q].ok
           /\ Key4(Written(inflight[p])) # Key4(Written(inflight[q])))
              => /\ Written(inflight[p]) \in {Notification(r) : r \in rows}
                 /\ Written(inflight[q]) \in {Notification(r) : r \in rows}
                 /\ Cardinality(rows) = 2
    /\ \A p \in Producers :
          (inflight[p].pc = "done" /\ ~inflight[p].ok)
              => inflight[p].err \in {"unavailable", "credentials", "network",
                                      "serialization"}

C14_Witness ==
    /\ \A p \in Producers : inflight[p].pc = "done" /\ inflight[p].ok
    /\ inflight[1].team_name = inflight[2].team_name
    /\ inflight[1].now > inflight[2].now
    /\ inflight[1].data # inflight[2].data
    /\ Written(inflight[1]) \in {Notification(r) : r \in rows}
    /\ Written(inflight[2]) \in {Notification(r) : r \in rows}

====
